---- MODULE Spec2Model ----
(***************************************************************************)
(* Model of scripts/balance_train.py: the two-agent PPO training driver,   *)
(* the CleanPPOAgent it drives (rollout cursor, optimisation phase, KL     *)
(* early stop), the vectorised environment handle with its registered      *)
(* partner, and the GAE recursion of the agent's advantage estimator.      *)
(*                                                                         *)
(* The driver (parse_args .. the training loop) is translated statement by *)
(* statement from the script.  CleanPPOAgent, the environment classes and  *)
(* the advantage estimator are imported by the script and live elsewhere   *)
(* in the repository; they are modelled from the written contract.         *)
(***************************************************************************)
EXTENDS Integers, Sequences, FiniteSets, TLC

VARIABLES
    pc,          \* the driver's position: the statement about to run
    error,       \* "none", or the exception that ended the run
    args,        \* the parsed command line (args = parse_args())
    num_updates, \* line 102; -1 until computed
    env,         \* the environment handle
    ego,         \* reference held by the name `ego` (0: unbound)
    partner,     \* reference held by the name `partner` (0: unbound)
    agents,      \* the heap of CleanPPOAgent objects: reference -> AgentState
    iter,        \* iterations of the training loop started so far
    obs,         \* driver variable obs: the env step that produced it (0: reset)
    action,      \* driver variable action: the iteration it was computed in
    rewards,     \* driver variable rewards/dones: the env step that produced them
    calls,       \* history: calls issued by the driver and by the environment
    optlog,      \* history: what the ego's optimisation phases did
    rollout,     \* a completed rollout handed to the advantage estimator
    gae          \* the estimator's output for `rollout`

vars == <<pc, error, args, num_updates, env, ego, partner, agents, iter,
          obs, action, rewards, calls, optlog, rollout, gae>>

mainVars == <<pc, error, args, num_updates, env, ego, partner, agents, iter,
              obs, action, rewards, calls, optlog>>

(***************************************************************************)
(* Bounds of the model.                                                    *)
(***************************************************************************)
MaxTimesteps == 6
MaxEnvs == 2
MaxSteps == 3
MaxHorizon == 4
MaxReward == 1
MaxValue == 1

(***************************************************************************)
(* parse_args: the defaults the model keeps, and the argument space.       *)
(***************************************************************************)
UpdateEpochsDefault == 4
NumMinibatchesDefault == 1

\* The flags the model varies; every other flag keeps its default.
ArgsSpace ==
    [cuda : BOOLEAN,
     madrona : BOOLEAN,
     total_timesteps : 0..MaxTimesteps,
     num_envs : 1..MaxEnvs,
     num_steps : 0..MaxSteps,
     anneal_lr : {TRUE},
     num_minibatches : {NumMinibatchesDefault},
     update_epochs : {UpdateEpochsDefault},
     target_kl : {"None", "set"}]

(***************************************************************************)
(* The driver's program order.                                             *)
(***************************************************************************)
SuccStepBeforeAction(l) ==
    CASE l = "make_env" -> "seed"
      [] l = "seed" -> "assert_cuda"
      [] l = "assert_cuda" -> "num_updates"
      [] l = "num_updates" -> "construct_ego"
      [] l = "construct_ego" -> "construct_partner"
      [] l = "construct_partner" -> "add_partner"
      [] l = "add_partner" -> "reset"
      [] l = "reset" -> "loop"
      [] l = "loop" -> "step"
      [] l = "step" -> "get_action"
      [] l = "get_action" -> "update"
      [] l = "update" -> "loop"

SuccResetInLoop(l) ==
    CASE l = "make_env" -> "seed"
      [] l = "seed" -> "assert_cuda"
      [] l = "assert_cuda" -> "num_updates"
      [] l = "num_updates" -> "construct_ego"
      [] l = "construct_ego" -> "construct_partner"
      [] l = "construct_partner" -> "add_partner"
      [] l = "add_partner" -> "loop"
      [] l = "loop" -> "reset"
      [] l = "reset" -> "get_action"
      [] l = "get_action" -> "step"
      [] l = "step" -> "update"
      [] l = "update" -> "loop"

\* Succ(l): the statement that follows statement l (for "loop": the first
\* statement of the body).
Succ(l) ==
    CASE l = "make_env" -> "seed"
      [] l = "seed" -> "assert_cuda"
      [] l = "assert_cuda" -> "num_updates"
      [] l = "num_updates" -> "construct_ego"
      [] l = "construct_ego" -> "construct_partner"
      [] l = "construct_partner" -> "add_partner"
      [] l = "add_partner" -> "reset"
      [] l = "reset" -> "loop"
      [] l = "loop" -> "get_action"
      [] l = "get_action" -> "step"
      [] l = "step" -> "update"
      [] l = "update" -> "loop"

(***************************************************************************)
(* Pieces of the driver.                                                   *)
(***************************************************************************)
AssertAlwaysPasses(a) == TRUE

\* assert args.cuda
AssertPasses(a) == a.cuda

NumUpdatesIgnoringEnvs(a) == a.total_timesteps \div a.num_steps

\* num_updates = args.total_timesteps // int(args.num_envs * args.num_steps)
NumUpdates(a) == a.total_timesteps \div (a.num_envs * a.num_steps)

EgoKwargsEnvsAsSteps(a, nu) ==
    [name |-> "ego", num_updates |-> nu, num_steps |-> a.num_envs,
     anneal_lr |-> a.anneal_lr, num_minibatches |-> a.num_minibatches,
     update_epochs |-> a.update_epochs, target_kl |-> a.target_kl]

EgoKwargsNoTargetKl(a, nu) ==
    [name |-> "ego", num_updates |-> nu, num_steps |-> a.num_steps,
     anneal_lr |-> a.anneal_lr, num_minibatches |-> a.num_minibatches,
     update_epochs |-> a.update_epochs, target_kl |-> "None"]

\* The keyword arguments of ego = CleanPPOAgent(...)
EgoKwargs(a, nu) ==
    [name |-> "ego", num_updates |-> nu, num_steps |-> a.num_steps,
     anneal_lr |-> a.anneal_lr, num_minibatches |-> a.num_minibatches,
     update_epochs |-> a.update_epochs, target_kl |-> a.target_kl]

\* The keyword arguments of partner = CleanPPOAgent(...)
PartnerKwargs(a, nu) ==
    [name |-> "alt", num_updates |-> nu, num_steps |-> a.num_steps,
     anneal_lr |-> a.anneal_lr, num_minibatches |-> a.num_minibatches,
     update_epochs |-> a.update_epochs, target_kl |-> a.target_kl]

PartnerRefAliasesEgo(e, fresh) == e

\* partner = CleanPPOAgent(...): the name is bound to the object just built,
\* not to the object `ego` names.
PartnerRef(e, fresh) == fresh

RecordFlagOff == FALSE

\* ego.get_action(obs, record=True)
RecordFlag == TRUE

\* range(num_updates * args.num_steps): the number of iterations
LoopBound(a, nu) == IF nu * a.num_steps > 0 THEN nu * a.num_steps ELSE 0

(***************************************************************************)
(* CleanPPOAgent.                                                          *)
(***************************************************************************)
\* The AgentState a constructor leaves: an empty buffer, cursor 0, COLLECTING.
NewAgent(kw) ==
    [name |-> kw.name,
     num_steps |-> kw.num_steps,
     num_updates |-> kw.num_updates,
     num_minibatches |-> kw.num_minibatches,
     update_epochs |-> kw.update_epochs,
     target_kl |-> kw.target_kl,
     anneal_lr |-> kw.anneal_lr,
     state |-> "COLLECTING",
     cursor |-> 0,
     rows |-> [i \in 1..kw.num_steps |-> "empty"],
     epoch |-> 0,
     grad_steps |-> 0,
     iteration |-> 0,
     lr_left |-> kw.num_updates]

\* get_action(obs, record): the forward pass changes no AgentState; with
\* record it writes the row at the cursor and advances the cursor.
AgentGetAction(s, record) ==
    IF record
    THEN [s EXCEPT !.rows[s.cursor + 1] = "open", !.cursor = s.cursor + 1]
    ELSE s

\* update(rewards, dones), first part: the reward and done of the row written
\* last complete that Transition; a full buffer starts the optimisation phase.
AgentRecordReward(s) ==
    LET t == [s EXCEPT !.rows[s.cursor] = "complete"]
    IN IF s.cursor = s.num_steps
       THEN [t EXCEPT !.state = "UPDATING", !.epoch = 0]
       ELSE t

\* One pass of the epoch loop: num_minibatches gradient steps.
AgentEpoch(s) ==
    [s EXCEPT !.epoch = s.epoch + 1,
              !.grad_steps = s.grad_steps + s.num_minibatches]

\* Whether the epoch loop ends after the pass just made, given whether the
\* approximate KL now exceeds the target.
EpochLoopEnds(s, kl_exceeds) ==
    \/ s.target_kl # "None" /\ kl_exceeds
    \/ s.epoch = s.update_epochs

\* After optimisation: cursor back to 0, the buffer handed over, the
\* learning rate annealed, COLLECTING again.
AgentFinishUpdate(s) ==
    [s EXCEPT !.state = "COLLECTING",
              !.cursor = 0,
              !.rows = [i \in 1..s.num_steps |-> "empty"],
              !.iteration = s.iteration + 1,
              !.lr_left = IF s.anneal_lr /\ s.lr_left > 0
                          THEN s.lr_left - 1 ELSE s.lr_left]

(***************************************************************************)
(* The advantage estimator.                                                *)
(*                                                                         *)
(* gamma = GammaNum/GammaDen and lambda = LambdaNum/LambdaDen.  Rewards    *)
(* and value estimates are integers.  A quantity of the recursion is kept  *)
(* exactly, as the sequence <<c0, c1, ...>> of integer coefficients of     *)
(*     (c0 + c1*x + c2*x^2 + ...) / GammaDen,   x = gamma*lambda,          *)
(* so that multiplying by gamma*lambda shifts the sequence by one place.   *)
(* Two quantities with the same coefficients are equal; a quantity of one  *)
(* coefficient is the number c0/GammaDen.                                  *)
(***************************************************************************)
GammaDen == 100

GammaZero == GammaDen - GammaDen

GammaOne == GammaDen

\* --gamma, default 0.99 = GammaNum/GammaDen
GammaNum == 99

\* --gae-lambda, default 0.95
LambdaNum == 95
LambdaDen == 100

\* done flags as the factor (1 - done)
NotDone(d) == IF d THEN 0 ELSE 1

\* value[t+1]; after the last step, the bootstrap value of the final observation
NextValue(ro, t, e) == IF t = ro.T THEN ro.boot[e] ELSE ro.value[t + 1][e]

\* delta[t] = reward[t] + gamma*(1-done[t])*value[t+1] - value[t], in 1/GammaDen
Delta(ro, t, e) ==
    GammaDen * ro.reward[t][e]
    + GammaNum * NotDone(ro.done[t][e]) * NextValue(ro, t, e)
    - GammaDen * ro.value[t][e]

\* advantage[t] = delta[t] + gamma*lambda*(1-done[t])*advantage[t+1],
\* computed backward from the last step
RECURSIVE Advantage(_, _, _)
Advantage(ro, t, e) ==
    IF t = ro.T
    THEN <<Delta(ro, t, e)>>
    ELSE LET rest == Advantage(ro, t + 1, e)
         IN <<Delta(ro, t, e)>>
            \o [k \in 1..Len(rest) |-> NotDone(ro.done[t][e]) * rest[k]]

\* return[t] = advantage[t] + value[t]
Return(ro, t, e) ==
    [Advantage(ro, t, e) EXCEPT ![1] = @ + GammaDen * ro.value[t][e]]

\* The advantage and return arrays, of the shape of the reward array
Estimate(ro) ==
    [T |-> ro.T,
     adv |-> [t \in 1..ro.T |-> [e \in 1..ro.N |-> Advantage(ro, t, e)]],
     ret |-> [t \in 1..ro.T |-> [e \in 1..ro.N |-> Return(ro, t, e)]]]

\* gamma*lambda > 0: a quantity whose coefficients are all <= 0 and not all 0
\* is negative, one whose coefficients are all >= 0 and not all 0 is positive
DiscountPositive == GammaNum * LambdaNum > 0 /\ GammaDen * LambdaDen > 0

IsZero(q) == \A k \in 1..Len(q) : q[k] = 0

IsNegative(q) ==
    /\ DiscountPositive
    /\ \A k \in 1..Len(q) : q[k] <= 0
    /\ \E k \in 1..Len(q) : q[k] < 0

IsPositive(q) ==
    /\ DiscountPositive
    /\ \A k \in 1..Len(q) : q[k] >= 0
    /\ \E k \in 1..Len(q) : q[k] > 0

\* The integer v as a quantity with n coefficients
Const(v, n) == [k \in 1..n |-> IF k = 1 THEN GammaDen * v ELSE 0]

(***************************************************************************)
(* Initial state: the script has parsed its arguments.                     *)
(***************************************************************************)
NoEnv == [created |-> FALSE, backend |-> "none", partners |-> <<>>,
          resets |-> 0, steps |-> 0, in_step |-> FALSE]

NoCalls == [get |-> 0, step |-> 0, upd |-> 0,
            last |-> [by |-> "none", op |-> "none", on |-> 0]]

NoOptLog == [phases |-> 0, epochs |-> 0, kl1 |-> FALSE, early |-> FALSE,
             full_after_early |-> FALSE]

NoRollout == [T |-> 0]

MainInit ==
    /\ pc = "make_env"
    /\ error = "none"
    /\ args \in ArgsSpace
    /\ num_updates = -1
    /\ env = NoEnv
    /\ ego = 0
    /\ partner = 0
    /\ agents = <<>>
    /\ iter = 0
    /\ obs = -1
    /\ action = -1
    /\ rewards = -1
    /\ calls = NoCalls
    /\ optlog = NoOptLog

Init ==
    /\ MainInit
    /\ rollout = NoRollout
    /\ gae = NoRollout

(***************************************************************************)
(* The driver's statements.                                                *)
(***************************************************************************)
\* lines 88-93: the backend is chosen by --madrona
MakeEnv ==
    /\ pc = "make_env"
    /\ env' = [NoEnv EXCEPT !.created = TRUE,
                            !.backend = IF args.madrona THEN "BalanceMadronaTorch"
                                        ELSE "SyncVectorEnv"]
    /\ pc' = Succ("make_env")
    /\ UNCHANGED <<error, args, num_updates, ego, partner, agents, iter,
                   obs, action, rewards, calls, optlog, rollout, gae>>

\* lines 95-98: seeding touches no state of the model
Seed ==
    /\ pc = "seed"
    /\ pc' = Succ("seed")
    /\ UNCHANGED <<error, args, num_updates, env, ego, partner, agents, iter,
                   obs, action, rewards, calls, optlog, rollout, gae>>

\* line 100
AssertCuda ==
    /\ pc = "assert_cuda"
    /\ IF AssertPasses(args)
       THEN pc' = Succ("assert_cuda") /\ error' = error
       ELSE pc' = "aborted" /\ error' = "AssertionError"
    /\ UNCHANGED <<args, num_updates, env, ego, partner, agents, iter,
                   obs, action, rewards, calls, optlog, rollout, gae>>

\* line 102: integer division raises on a zero divisor
ComputeNumUpdates ==
    /\ pc = "num_updates"
    /\ IF args.num_envs * args.num_steps = 0
       THEN pc' = "aborted" /\ error' = "ZeroDivisionError"
            /\ num_updates' = num_updates
       ELSE pc' = Succ("num_updates") /\ error' = error
            /\ num_updates' = NumUpdates(args)
    /\ UNCHANGED <<args, env, ego, partner, agents, iter,
                   obs, action, rewards, calls, optlog, rollout, gae>>

\* lines 104-124
ConstructEgo ==
    /\ pc = "construct_ego"
    /\ LET fresh == Len(agents) + 1
       IN /\ agents' = Append(agents, NewAgent(EgoKwargs(args, num_updates)))
          /\ ego' = fresh
    /\ pc' = Succ("construct_ego")
    /\ UNCHANGED <<error, args, num_updates, env, partner, iter,
                   obs, action, rewards, calls, optlog, rollout, gae>>

\* lines 126-146
ConstructPartner ==
    /\ pc = "construct_partner"
    /\ LET fresh == Len(agents) + 1
       IN /\ agents' = Append(agents, NewAgent(PartnerKwargs(args, num_updates)))
          /\ partner' = PartnerRef(ego, fresh)
    /\ pc' = Succ("construct_partner")
    /\ UNCHANGED <<error, args, num_updates, env, ego, iter,
                   obs, action, rewards, calls, optlog, rollout, gae>>

\* line 150
AddPartner ==
    /\ pc = "add_partner"
    /\ env' = [env EXCEPT !.partners = Append(env.partners, partner)]
    /\ calls' = [calls EXCEPT !.last = [by |-> "driver", op |-> "add_partner_agent",
                                        on |-> partner]]
    /\ pc' = Succ("add_partner")
    /\ UNCHANGED <<error, args, num_updates, ego, partner, agents, iter,
                   obs, action, rewards, optlog, rollout, gae>>

\* line 151
Reset ==
    /\ pc = "reset"
    /\ env' = [env EXCEPT !.resets = env.resets + 1]
    /\ obs' = env.steps
    /\ calls' = [calls EXCEPT !.last = [by |-> "driver", op |-> "reset", on |-> 0]]
    /\ pc' = Succ("reset")
    /\ UNCHANGED <<error, args, num_updates, ego, partner, agents, iter,
                   action, rewards, optlog, rollout, gae>>

\* line 152: the next value of the range, or the end of the loop
LoopHead ==
    /\ pc = "loop"
    /\ IF iter < LoopBound(args, num_updates)
       THEN iter' = iter + 1 /\ pc' = Succ("loop")
       ELSE iter' = iter /\ pc' = "done"
    /\ UNCHANGED <<error, args, num_updates, env, ego, partner, agents,
                   obs, action, rewards, calls, optlog, rollout, gae>>

\* line 153
GetAction ==
    /\ pc = "get_action"
    /\ RecordFlag => agents[ego].cursor < agents[ego].num_steps
    /\ agents' = [agents EXCEPT ![ego] = AgentGetAction(@, RecordFlag)]
    /\ action' = iter
    /\ calls' = [calls EXCEPT !.get = calls.get + 1,
                              !.last = [by |-> "driver", op |-> "get_action",
                                        on |-> ego]]
    /\ pc' = Succ("get_action")
    /\ UNCHANGED <<error, args, num_updates, env, ego, partner, iter,
                   obs, rewards, optlog, rollout, gae>>

\* line 155, the call: the environment computes the registered partner's
\* action from the partner's own observation, without recording
StepPartner ==
    /\ pc = "step"
    /\ ~env.in_step
    /\ env' = [env EXCEPT !.in_step = TRUE]
    /\ agents' = [r \in DOMAIN agents |->
                    IF \E i \in DOMAIN env.partners : env.partners[i] = r
                    THEN AgentGetAction(agents[r], FALSE) ELSE agents[r]]
    /\ calls' = [calls EXCEPT !.step = calls.step + 1,
                              !.last = [by |-> "env", op |-> "get_action",
                                        on |-> IF Len(env.partners) > 0
                                               THEN env.partners[1] ELSE 0]]
    /\ UNCHANGED <<pc, error, args, num_updates, ego, partner, iter,
                   obs, action, rewards, optlog, rollout, gae>>

\* line 155, the return: the merged actions are applied and the call returns
\* the next observations, rewards and dones
StepReturn ==
    /\ pc = "step"
    /\ env.in_step
    /\ env' = [env EXCEPT !.in_step = FALSE, !.steps = env.steps + 1]
    /\ obs' = env.steps + 1
    /\ rewards' = env.steps + 1
    /\ pc' = Succ("step")
    /\ UNCHANGED <<error, args, num_updates, ego, partner, agents, iter,
                   action, calls, optlog, rollout, gae>>

\* line 157, the call: the Transition is completed; a full buffer starts the
\* optimisation phase, otherwise update returns
UpdateRecord ==
    /\ pc = "update"
    /\ agents[ego].state = "COLLECTING"
    /\ agents[ego].cursor >= 1
    /\ agents' = [agents EXCEPT ![ego] = AgentRecordReward(@)]
    /\ calls' = [calls EXCEPT !.upd = calls.upd + 1,
                              !.last = [by |-> "driver", op |-> "update",
                                        on |-> ego]]
    /\ pc' = IF agents[ego].cursor = agents[ego].num_steps
             THEN "update" ELSE Succ("update")
    /\ UNCHANGED <<error, args, num_updates, env, ego, partner, iter,
                   obs, action, rewards, optlog, rollout, gae>>

\* the optimisation phase: one epoch, then the KL test
OptEpoch ==
    /\ pc = "update"
    /\ agents[ego].state = "UPDATING"
    /\ agents[ego].epoch < agents[ego].update_epochs
    /\ \E kl_exceeds \in BOOLEAN :
         LET s == AgentEpoch(agents[ego])
             ends == EpochLoopEnds(s, kl_exceeds)
         IN /\ agents' = [agents EXCEPT ![ego] =
                            IF ends THEN AgentFinishUpdate(s) ELSE s]
            /\ pc' = IF ends THEN Succ("update") ELSE "update"
            /\ optlog' =
                 LET kl1 == IF s.epoch = 1 THEN kl_exceeds ELSE optlog.kl1
                 IN IF ends
                    THEN [phases |-> optlog.phases + 1,
                          epochs |-> s.epoch,
                          kl1 |-> kl1,
                          early |-> optlog.early \/ s.epoch < s.update_epochs,
                          full_after_early |->
                              \/ optlog.full_after_early
                              \/ optlog.early /\ s.epoch = s.update_epochs]
                    ELSE [optlog EXCEPT !.kl1 = kl1]
    /\ UNCHANGED <<error, args, num_updates, env, ego, partner, iter,
                   obs, action, rewards, calls, rollout, gae>>

Next ==
    \/ MakeEnv
    \/ Seed
    \/ AssertCuda
    \/ ComputeNumUpdates
    \/ ConstructEgo
    \/ ConstructPartner
    \/ AddPartner
    \/ Reset
    \/ LoopHead
    \/ GetAction
    \/ StepPartner
    \/ StepReturn
    \/ UpdateRecord
    \/ OptEpoch

Spec == Init /\ [][Next]_vars

\* The interpreter runs the script's next statement whenever there is one.
FairSpec == Spec /\ WF_vars(Next)

(***************************************************************************)
(* The estimator on its own: a completed rollout is drawn and estimated.   *)
(* Rollouts: T steps of N environments, one reward everywhere, at most one *)
(* done flag (at step d of the first environment; d = 0: none), value      *)
(* estimate V before the last step and VL at it, and a bootstrap value per *)
(* environment.                                                            *)
(***************************************************************************)
DonePlaces(T) == 0..T

MakeRollout(T, N, r, d, V, VL, b) ==
    [T |-> T, N |-> N,
     reward |-> [t \in 1..T |-> [e \in 1..N |-> r]],
     done |-> [t \in 1..T |-> [e \in 1..N |-> t = d /\ e = 1]],
     value |-> [t \in 1..T |-> [e \in 1..N |-> IF t = T THEN VL ELSE V]],
     boot |-> b]

EstimatorArgs ==
    [cuda |-> TRUE, madrona |-> TRUE, total_timesteps |-> 0, num_envs |-> 1,
     num_steps |-> 1, anneal_lr |-> TRUE,
     num_minibatches |-> NumMinibatchesDefault,
     update_epochs |-> UpdateEpochsDefault, target_kl |-> "None"]

InitGAE ==
    /\ pc = "estimator"
    /\ error = "none"
    /\ args = EstimatorArgs
    /\ num_updates = -1
    /\ env = NoEnv
    /\ ego = 0
    /\ partner = 0
    /\ agents = <<>>
    /\ iter = 0
    /\ obs = -1
    /\ action = -1
    /\ rewards = -1
    /\ calls = NoCalls
    /\ optlog = NoOptLog
    /\ \E T \in 1..MaxHorizon, N \in 1..MaxEnvs :
         \E r \in 0..MaxReward, d \in DonePlaces(T),
            V \in -MaxValue..MaxValue, VL \in -MaxValue..MaxValue,
            b \in [1..N -> -MaxValue..MaxValue] :
           rollout = MakeRollout(T, N, r, d, V, VL, b)
    /\ gae = NoRollout

ComputeGAE ==
    /\ pc = "estimator"
    /\ gae = NoRollout
    /\ gae' = Estimate(rollout)
    /\ UNCHANGED <<mainVars, rollout>>

NextGAE == ComputeGAE

SpecGAE == InitGAE /\ [][NextGAE]_vars

(***************************************************************************)
(* Properties.                                                             *)
(***************************************************************************)
Collecting(r) == agents[r].state = "COLLECTING"
Updating(r) == agents[r].state = "UPDATING"
InLoop == pc \in {"loop", "get_action", "step", "update", "done"}
FloorUpdates == args.total_timesteps \div (args.num_envs * args.num_steps)

\* C1: with num_steps >= 1 and the ego's cursor starting at 0, the k-th
\* get_action(record=True) writes row (k-1) mod num_steps and leaves the
\* cursor one past it; after every num_steps alternations of get_action and
\* update the cursor has reached num_steps, exactly one more optimisation
\* phase has run and the cursor is 0 again, so the get_action that follows
\* writes row 0.
C1_CursorCycle ==
    (ego # 0 /\ args.num_steps >= 1 /\ pc # "aborted") =>
      LET s == agents[ego]
          n == args.num_steps
      IN /\ pc \in {"loop", "done"} =>
              /\ s.cursor = iter % n
              /\ s.iteration = iter \div n
              /\ optlog.phases = iter \div n
              /\ calls.get = iter /\ calls.upd = iter
         /\ pc = "get_action" =>
              /\ s.cursor = (iter - 1) % n
              /\ optlog.phases = (iter - 1) \div n
         /\ (pc = "step" \/ (pc = "update" /\ Collecting(ego))) =>
              /\ s.cursor = ((iter - 1) % n) + 1
              /\ s.rows[s.cursor] = "open"
              /\ optlog.phases = (iter - 1) \div n
         /\ Updating(ego) =>
              /\ s.cursor = n
              /\ iter % n = 0
              /\ calls.upd = iter
              /\ optlog.phases = (iter \div n) - 1

\* C1's case: the get_action after the first full cycle of num_steps >= 2
\* steps has written row 0, one optimisation phase having run.
C1_Witness ==
    /\ pc = "step"
    /\ args.num_steps >= 2
    /\ iter = args.num_steps + 1
    /\ optlog.phases = 1
    /\ agents[ego].cursor = 1
    /\ agents[ego].rows[1] = "open"

C2_Inv ==
    \A r \in DOMAIN agents :
      /\ 0 <= agents[r].cursor /\ agents[r].cursor <= args.num_steps
      /\ agents[r].state \in {"COLLECTING", "UPDATING"}
      /\ Updating(r) =>
           /\ agents[r].cursor = args.num_steps
           /\ DOMAIN agents[r].rows = 1..args.num_steps
           /\ \A i \in 1..args.num_steps : agents[r].rows[i] = "complete"

C2_Step ==
    /\ \A r \in DOMAIN agents' : r \notin DOMAIN agents => agents'[r].state = "COLLECTING"
    /\ \A r \in DOMAIN agents :
         /\ (Collecting(r) /\ agents'[r].state = "UPDATING") =>
               \A i \in 1..args.num_steps : agents'[r].rows[i] = "complete"
         /\ (\E i \in DOMAIN agents[r].rows :
                agents[r].rows[i] # "empty" /\ agents'[r].rows[i] = "empty") =>
               /\ Updating(r)
               /\ agents'[r].state = "COLLECTING"
               /\ \A i \in 1..args.num_steps : agents[r].rows[i] = "complete"

\* C2: every agent's cursor stays within 0..num_steps; an agent is UPDATING
\* only with cursor = num_steps and all num_steps rows complete (reward and
\* done recorded); agents start COLLECTING, go to UPDATING only on a full
\* buffer, and a buffer is emptied only by an UPDATING agent going back to
\* COLLECTING.
C2_FullBufferOnly == [](C2_Inv) /\ [][C2_Step]_vars

\* C2's case: the ego is in its optimisation phase on a buffer of 2 or more rows.
C2_Witness ==
    /\ ego # 0
    /\ Updating(ego)
    /\ args.num_steps >= 2
    /\ agents[ego].epoch >= 1

\* C3: the driver's calls alternate get_action, env.step, update: an
\* env.step is issued only after the get_action of its iteration, an update
\* only after that env.step has returned, a get_action only after the
\* previous update has returned; no env.step is in progress while the ego
\* is UPDATING, and at most one env.step is in progress at a time.
C3_StrictOrder ==
    /\ calls.upd <= calls.step
    /\ calls.step <= calls.get
    /\ calls.get <= calls.upd + 1
    /\ env.steps <= calls.step
    /\ calls.step <= env.steps + 1
    /\ calls.upd <= env.steps
    /\ env.in_step <=> calls.step = env.steps + 1
    /\ env.in_step => (ego # 0 /\ Collecting(ego) /\ calls.get = calls.upd + 1)
    /\ (ego # 0 /\ Updating(ego)) =>
          (~env.in_step /\ calls.get = calls.upd /\ calls.step = calls.upd)
    /\ pc = "get_action" =>
          (calls.get = calls.upd /\ ~env.in_step /\ Collecting(ego))
    /\ pc \in {"loop", "done"} =>
          (calls.get = calls.upd /\ calls.step = calls.upd /\ env.steps = calls.upd)
    /\ pc = "step" => action = iter
    /\ (pc = "update" /\ Collecting(ego)) => rewards = iter

\* C3's case: the third env.step is in progress.
C3_Witness ==
    /\ env.in_step
    /\ calls.step = 3
    /\ calls.upd = 2

C4_Inv ==
    /\ env.resets <= 1
    /\ Len(env.partners) <= 1
    /\ calls.step > 0 => env.resets = 1
    /\ InLoop => env.resets = 1
    /\ env.resets = 1 => (Len(env.partners) = 1 /\ env.partners[1] = partner)

C4_Step ==
    /\ env'.resets # env.resets =>
          /\ env.resets = 0
          /\ calls.step = 0
          /\ Len(env.partners) = 1
    /\ env'.partners # env.partners =>
          /\ env.partners = <<>>
          /\ env.resets = 0

\* C4: in a run that gets past start-up, env.reset() is called exactly once:
\* never twice, before any env.step is issued, and with the one partner
\* already registered; add_partner_agent registers once, before the reset.
C4_ResetOnce == [](C4_Inv) /\ [][C4_Step]_vars

\* C4's case: a run that stepped the environment has ended with one reset.
C4_Witness ==
    /\ pc = "done"
    /\ env.steps >= 2
    /\ env.resets = 1
    /\ Len(env.partners) = 1

C5_Inv ==
    /\ InLoop =>
         /\ num_updates = FloorUpdates
         /\ iter <= FloorUpdates * args.num_steps
         /\ env.steps <= FloorUpdates * args.num_steps
    /\ pc = "done" =>
         /\ iter = FloorUpdates * args.num_steps
         /\ calls.step = FloorUpdates * args.num_steps
         /\ env.steps = FloorUpdates * args.num_steps
         /\ optlog.phases = FloorUpdates
         /\ agents[ego].iteration = FloorUpdates
         /\ agents[ego].cursor = 0
         /\ Collecting(ego)
         /\ \A i \in 1..args.num_steps : agents[ego].rows[i] = "empty"
         /\ env.resets = 1

\* C5: the loop runs num_updates*num_steps iterations with num_updates =
\* floor(total_timesteps / (num_envs*num_steps)) fixed before it starts; at
\* loop exit the driver has issued exactly that many env.step calls, the
\* ego's optimisation phase has run num_updates times, and the ego's cursor
\* is 0 with an empty buffer (with num_updates = 0: one reset, no step);
\* and every run ends.
C5_FixedIterations == [](C5_Inv) /\ <>(pc \in {"done", "aborted"})

\* C5's case: a run of two full rollouts of three steps has ended.
C5_Witness ==
    /\ pc = "done"
    /\ num_updates = 2
    /\ args.num_steps = 3
    /\ args.num_envs = 1
    /\ env.steps = 6

\* C6: with target_kl configured, an optimisation phase whose approximate KL
\* exceeds the target after epoch 1 performs exactly 1 of its 4 epochs; the
\* stop is not an error: the cursor is reset to 0, the ego is COLLECTING
\* again, the run goes on, later phases start again at epoch 0 and every
\* one of the num_updates phases runs.
C6_KlEarlyStop ==
    (ego # 0 /\ pc # "aborted") =>
      /\ (Collecting(ego) /\ optlog.phases > 0) =>
           /\ (args.target_kl # "None" /\ optlog.kl1) => optlog.epochs = 1
           /\ optlog.epochs >= 1 /\ optlog.epochs <= args.update_epochs
      /\ (pc = "loop" /\ optlog.phases > 0 /\ iter % args.num_steps = 0) =>
           (agents[ego].cursor = 0 /\ Collecting(ego))
      /\ optlog.early => (error = "none" /\ args.target_kl # "None")
      /\ Updating(ego) => agents[ego].epoch < args.update_epochs
      /\ pc = "done" => optlog.phases = num_updates

\* C6's case: a phase stopped after 1 epoch on KL, although an earlier phase
\* stopped early and a later one ran all its epochs.
C6_Witness ==
    /\ pc = "loop"
    /\ args.target_kl = "set"
    /\ args.update_epochs = 4
    /\ optlog.phases >= 3
    /\ optlog.full_after_early
    /\ optlog.kl1
    /\ optlog.epochs = 1
    /\ agents[ego].cursor = 0

\* C9: with cuda false the run ends at the assert with an AssertionError
\* and goes no further: no agent is constructed, no partner registered, the
\* environment never reset or stepped, no get_action and no update.
C9_NoCudaAborts ==
    (~args.cuda) =>
      /\ pc \in {"make_env", "seed", "assert_cuda", "aborted"}
      /\ pc = "aborted" => (error = "AssertionError" /\ ~ENABLED Next)
      /\ pc # "aborted" => error = "none"
      /\ ego = 0 /\ partner = 0 /\ agents = <<>>
      /\ env.partners = <<>> /\ env.resets = 0 /\ env.steps = 0 /\ ~env.in_step
      /\ calls.get = 0 /\ calls.step = 0 /\ calls.upd = 0
      /\ iter = 0 /\ num_updates = -1

\* C9's case: the run without cuda has aborted, its environment constructed.
C9_Witness ==
    /\ ~args.cuda
    /\ pc = "aborted"
    /\ error = "AssertionError"
    /\ env.created

C10_Inv ==
    /\ (ego # 0 /\ partner # 0) => ego # partner
    /\ (calls.last.by = "driver" /\ calls.last.op \in {"get_action", "update"}) =>
          (calls.last.on = ego /\ calls.last.on # partner)
    /\ (calls.last.by = "env" /\ calls.last.op = "get_action") =>
          (calls.last.on = partner /\ calls.last.on # ego)

C10_Step ==
    /\ (partner # 0 /\ pc \in {"get_action", "update"}) =>
          agents'[partner] = agents[partner]
    /\ (ego # 0 /\ pc = "step") =>
          agents'[ego] = agents[ego]
    /\ (ego # 0 /\ pc \in {"get_action", "update"}) =>
          (agents'[ego] # agents[ego] /\ partner # ego)

\* C10: ego and partner are different objects; every get_action and update
\* of the ego, optimisation phase included, leaves the partner's AgentState
\* unchanged; the partner's action computation inside env.step leaves the
\* ego's AgentState unchanged; the driver calls get_action and update on
\* the ego only, the environment calls get_action on the partner only.
C10_DisjointAgentState == [](C10_Inv) /\ [][C10_Step]_vars

\* C10's case: the ego has taken gradient steps and the environment has
\* computed partner actions, the partner's AgentState still untouched.
C10_Witness ==
    /\ ego # 0 /\ partner # 0
    /\ agents[ego].grad_steps >= 2
    /\ env.steps >= 2
    /\ agents[partner].grad_steps = 0
    /\ agents[partner].cursor = 0

C7_Scenario ==
    /\ gae # NoRollout
    /\ rollout.T = 4 /\ rollout.N = 2
    /\ \A t \in 1..4 : \A e \in 1..2 :
         /\ rollout.reward[t][e] = 1
         /\ rollout.done[t][e] <=> (t = 4 /\ e = 1)

\* C7: num_envs=2, num_steps=4, rewards 1, the only done flag at the last
\* step of the first environment: the first environment's last-step return
\* is the reward, 1, whatever the bootstrap value; the second environment's
\* last-step return is 1 + 0.99*bootstrap.
C7_TerminalNoBootstrap ==
    C7_Scenario =>
      /\ gae.ret[4][1] = <<100>>
      /\ gae.ret[4][2] = <<100 + 99 * rollout.boot[2]>>
      /\ gae.adv[4][1] = <<100 - 100 * rollout.value[4][1]>>

\* C7's case: the scenario with nonzero bootstrap values on both environments.
C7_Witness ==
    /\ C7_Scenario
    /\ rollout.boot[1] = 1
    /\ rollout.boot[2] = 1
    /\ gae.ret[4][2] = <<199>>

C8_Scenario ==
    /\ gae # NoRollout
    /\ \A t \in 1..rollout.T : \A e \in 1..rollout.N :
         /\ rollout.reward[t][e] = 0
         /\ ~rollout.done[t][e]
         /\ rollout.value[t][e] = rollout.boot[1]
         /\ rollout.boot[e] = rollout.boot[1]

\* C8 as stated: zero rewards, no done flags, every value estimate and the
\* bootstrap equal to V: advantage[t] = 0 and return[t] = V at every step,
\* for every V.
C8_Original ==
    C8_Scenario =>
      \A t \in 1..rollout.T : \A e \in 1..rollout.N :
        /\ IsZero(gae.adv[t][e])
        /\ gae.ret[t][e] = Const(rollout.boot[1], Len(gae.ret[t][e]))

\* C8, amended: in that scenario advantage[t] = 0 and return[t] = V at every
\* step when V = 0; for V > 0 every advantage is negative and for V < 0
\* positive, and at the last step advantage = (gamma-1)*V = -0.01*V and
\* return = gamma*V = 0.99*V.
C8_Amended ==
    C8_Scenario =>
      LET V == rollout.boot[1]
      IN \A t \in 1..rollout.T : \A e \in 1..rollout.N :
           /\ V = 0 => /\ IsZero(gae.adv[t][e])
                       /\ gae.ret[t][e] = Const(0, Len(gae.ret[t][e]))
           /\ V > 0 => IsNegative(gae.adv[t][e])
           /\ V < 0 => IsPositive(gae.adv[t][e])
           /\ gae.adv[rollout.T][e] = <<-V>>
           /\ gae.ret[rollout.T][e] = <<99 * V>>

\* C8's case: constant value estimates V = 1 over several steps.
C8_Witness ==
    /\ C8_Scenario
    /\ rollout.T >= 3
    /\ rollout.N = 2
    /\ rollout.boot[1] = 1
    /\ gae.adv[1][1][1] = -1

====
